---- MODULE Spec2Model ----
(***************************************************************************)
(* Model of the group-pattern expander of fpr (src/main.rs,                *)
(* expand_group_pattern with its inner functions expand_rec and            *)
(* parse_group).                                                           *)
(*                                                                         *)
(* A pattern is a sequence of characters, each a string (see WhiteSpace    *)
(* for the characters a string cannot hold).  An expansion pair            *)
(* (String, bool) is a record [s |-> text, excl |-> flag].  Indices i,     *)
(* start, next_i are the 0-based indices of the Rust code, so chars[i] of  *)
(* the code is chars[i + 1] here and the slice chars[start..i] is          *)
(* SubSeq(chars, start + 1, i).  An anyhow::Result is a record with an ok  *)
(* field.                                                                  *)
(*                                                                         *)
(* The outermost activation of expand_rec, the parse_group activations it  *)
(* starts and the driver loop of expand_group_pattern run as actions, one  *)
(* loop iteration per step.  The activations nested below (expand_rec on a *)
(* segment body) are evaluated by the recursive operators, which iterate   *)
(* the very same loop-body operators.                                      *)
(***************************************************************************)
EXTENDS Integers, Sequences, FiniteSets, TLC

\* ------------------------------------------------------------------ bounds
MaxLen == 4

\* ---------------------------------------------------------------- helpers
\* char::is_whitespace as used by str::trim: the 25 characters with the
\* Unicode property White_Space.  A character is written as itself where a
\* string of the module can hold it (U+0009 to U+000D, U+0020, U+0085,
\* U+00A0, U+1680, in this order below), and by the name of its code point
\* where it cannot (U+2000 and above).
WhiteSpace ==
    {"\t", "\n", "", "\f", "\r", " ", "", " ", " ",
     "U+2000", "U+2001", "U+2002", "U+2003", "U+2004", "U+2005", "U+2006",
     "U+2007", "U+2008", "U+2009", "U+200A", "U+2028", "U+2029", "U+202F",
     "U+205F", "U+3000"}

RECURSIVE TrimStart(_)
TrimStart(seg) ==
    IF seg # <<>> /\ Head(seg) \in WhiteSpace THEN TrimStart(Tail(seg)) ELSE seg

RECURSIVE TrimEnd(_)
TrimEnd(seg) ==
    IF seg # <<>> /\ seg[Len(seg)] \in WhiteSpace
    THEN TrimEnd(SubSeq(seg, 1, Len(seg) - 1))
    ELSE seg

\* faulty variant for C6: only the front of the segment is trimmed
TrimLeadingOnly(seg) == TrimStart(seg)

\* seg.trim()
Trim(seg) == TrimEnd(TrimStart(seg))

\* faulty variant for C5: a marker anywhere in the segment counts
MarkerAnywhere(trimmed) ==
    \E k \in 1..Len(trimmed) : trimmed[k] \in {"-", "^"}

\* trimmed.starts_with('-') || trimmed.starts_with('^')
StartsWithMarker(trimmed) == trimmed # <<>> /\ trimmed[1] \in {"-", "^"}

\* the (is_excl, body) of a trimmed, non-empty segment
SegmentSplit(trimmed) ==
    IF StartsWithMarker(trimmed)
    THEN [is_excl |-> TRUE, body |-> Tail(trimmed)]
    ELSE [is_excl |-> FALSE, body |-> trimmed]

\* faulty variant for C9: a ')' met outside a group is swallowed
PushCharSkipsClose(acc, c) ==
    IF c = ")" THEN acc
    ELSE [k \in 1..Len(acc) |-> [s |-> Append(acc[k].s, c), excl |-> acc[k].excl]]

\* for (s, _) in &mut acc { s.push(c) }
PushChar(acc, c) ==
    [k \in 1..Len(acc) |-> [s |-> Append(acc[k].s, c), excl |-> acc[k].excl]]

\* faulty variant for C3: the two loops nested the other way round
CartesianSuffixMajor(acc, group_items) ==
    LET m == Len(acc) IN
    [k \in 1..(m * Len(group_items)) |->
        LET q == ((k - 1) \div m) + 1
            p == ((k - 1) % m) + 1
        IN  [s |-> acc[p].s \o group_items[q].s,
             excl |-> acc[p].excl \/ group_items[q].excl]]

\* the nested for loops building new_acc: prefixes outermost, suffixes inner
Cartesian(acc, group_items) ==
    LET n == Len(group_items) IN
    [k \in 1..(Len(acc) * n) |->
        LET p == ((k - 1) \div n) + 1
            q == ((k - 1) % n) + 1
        IN  [s |-> acc[p].s \o group_items[q].s,
             excl |-> acc[p].excl \/ group_items[q].excl]]

\* faulty variant for C4: the segment's own marker is not OR-ed in
MarkItemsInnerOnly(sub_items, is_excl) ==
    [k \in 1..Len(sub_items) |->
        [s |-> sub_items[k].s, excl |-> sub_items[k].excl]]

\* for (s, sub_excl) in sub_items { out.push((s, is_excl || sub_excl)) }
MarkItems(sub_items, is_excl) ==
    [k \in 1..Len(sub_items) |->
        [s |-> sub_items[k].s, excl |-> is_excl \/ sub_items[k].excl]]

\* ------------------------------------------------- parse_group, scan loop
\* locals of parse_group at entry
GroupEntry(i) ==
    [i |-> i, depth |-> 0, start |-> i, segments |-> <<>>, brk |-> FALSE]

\* the loop condition of the scanning loop (brk records the break)
GroupScanning(chars, g) == g.i < Len(chars) /\ ~g.brk

\* faulty variant for C7: the arm for a nested ')' forgets `i += 1`
GroupScanStepStalls(chars, g) ==
    LET c == chars[g.i + 1] IN
    CASE c = "(" ->
            [g EXCEPT !.depth = @ + 1, !.i = @ + 1]
      [] c = ")" /\ g.depth = 0 ->
            [g EXCEPT !.segments = Append(@, SubSeq(chars, g.start + 1, g.i)),
                      !.i = @ + 1, !.brk = TRUE]
      [] c = ")" /\ g.depth # 0 ->
            [g EXCEPT !.depth = @ - 1]
      [] c = "," /\ g.depth = 0 ->
            [g EXCEPT !.segments = Append(@, SubSeq(chars, g.start + 1, g.i)),
                      !.i = @ + 1, !.start = g.i + 1]
      [] OTHER ->
            [g EXCEPT !.i = @ + 1]

\* faulty variant for C8: the arm for ',' lacks the guard `depth == 0`
GroupScanStepAnyComma(chars, g) ==
    LET c == chars[g.i + 1] IN
    CASE c = "(" ->
            [g EXCEPT !.depth = @ + 1, !.i = @ + 1]
      [] c = ")" /\ g.depth = 0 ->
            [g EXCEPT !.segments = Append(@, SubSeq(chars, g.start + 1, g.i)),
                      !.i = @ + 1, !.brk = TRUE]
      [] c = ")" /\ g.depth # 0 ->
            [g EXCEPT !.depth = @ - 1, !.i = @ + 1]
      [] c = "," ->
            [g EXCEPT !.segments = Append(@, SubSeq(chars, g.start + 1, g.i)),
                      !.i = @ + 1, !.start = g.i + 1]
      [] OTHER ->
            [g EXCEPT !.i = @ + 1]

\* one iteration of the scanning loop: the match on chars[i]
GroupScanStep(chars, g) ==
    LET c == chars[g.i + 1] IN
    CASE c = "(" ->
            [g EXCEPT !.depth = @ + 1, !.i = @ + 1]
      [] c = ")" /\ g.depth = 0 ->
            [g EXCEPT !.segments = Append(@, SubSeq(chars, g.start + 1, g.i)),
                      !.i = @ + 1, !.brk = TRUE]
      [] c = ")" /\ g.depth # 0 ->
            [g EXCEPT !.depth = @ - 1, !.i = @ + 1]
      [] c = "," /\ g.depth = 0 ->
            [g EXCEPT !.segments = Append(@, SubSeq(chars, g.start + 1, g.i)),
                      !.i = @ + 1, !.start = g.i + 1]
      [] OTHER ->
            [g EXCEPT !.i = @ + 1]

RECURSIVE GroupScanLoop(_, _)
GroupScanLoop(chars, g) ==
    IF GroupScanning(chars, g)
    THEN GroupScanLoop(chars, GroupScanStep(chars, g))
    ELSE g

\* if i > chars.len() { bail!("Unmatched '(' in pattern") }
GroupUnmatched(chars, g) == g.i > Len(chars)

\* --------------------------------------- expand_rec / parse_group, nested
RECURSIVE expand_rec(_)
RECURSIVE ExpandLoop(_, _, _)
RECURSIVE parse_group(_, _)
RECURSIVE SegmentLoop(_, _, _)

\* faulty variant for C10: an empty segment is expanded like any other
SegmentItemsKeepsEmpty(seg) ==
    LET trimmed == Trim(seg)
        sp == SegmentSplit(trimmed)
        sub == expand_rec(sp.body)
    IN  IF ~sub.ok
        THEN [ok |-> FALSE, items |-> <<>>]
        ELSE [ok |-> TRUE, items |-> MarkItems(sub.pairs, sp.is_excl)]

\* one iteration of `for seg in segments`: the pairs the segment adds to out
SegmentItems(seg) ==
    LET trimmed == Trim(seg) IN
    IF trimmed = <<>>
    THEN [ok |-> TRUE, items |-> <<>>]
    ELSE LET sp == SegmentSplit(trimmed)
             sub == expand_rec(sp.body)
         IN  IF ~sub.ok
             THEN [ok |-> FALSE, items |-> <<>>]
             ELSE [ok |-> TRUE, items |-> MarkItems(sub.pairs, sp.is_excl)]

SegmentLoop(segments, k, out) ==
    IF k > Len(segments)
    THEN [ok |-> TRUE, items |-> out]
    ELSE LET r == SegmentItems(segments[k]) IN
         IF ~r.ok
         THEN [ok |-> FALSE, items |-> <<>>]
         ELSE SegmentLoop(segments, k + 1, out \o r.items)

parse_group(chars, i) ==
    LET g == GroupScanLoop(chars, GroupEntry(i)) IN
    IF GroupUnmatched(chars, g)
    THEN [ok |-> FALSE, items |-> <<>>, next |-> g.i]
    ELSE LET r == SegmentLoop(g.segments, 1, <<>>) IN
         [ok |-> r.ok, items |-> r.items, next |-> g.i]

ExpandLoop(chars, acc, i) ==
    IF ~(i < Len(chars))
    THEN [ok |-> TRUE, pairs |-> acc]
    ELSE IF chars[i + 1] = "("
         THEN LET r == parse_group(chars, i + 1) IN
              IF ~r.ok
              THEN [ok |-> FALSE, pairs |-> <<>>]
              ELSE ExpandLoop(chars, Cartesian(acc, r.items), r.next)
         ELSE ExpandLoop(chars, PushChar(acc, chars[i + 1]), i + 1)

\* vec![(String::new(), false)]
InitialAcc == << [s |-> <<>>, excl |-> FALSE] >>

expand_rec(span) == ExpandLoop(span, InitialAcc, 0)

\* ------------------------------------------ expand_group_pattern, driver
\* one iteration of `for (s, excl) in pairs`
PartitionStep(d, pair) ==
    IF pair.excl
    THEN [d EXCEPT !.excludes = @ \cup {pair.s}]
    ELSE [d EXCEPT !.includes = Append(@, pair.s)]

RECURSIVE PartitionLoop(_, _, _)
PartitionLoop(pairs, k, d) ==
    IF k > Len(pairs) THEN d
    ELSE PartitionLoop(pairs, k + 1, PartitionStep(d, pairs[k]))

\* faulty variant for C2: the retain is left out
RetainKeepsAll(includes, excludes) == includes

\* includes.retain(|p| !excludes.contains(p))
Retain(includes, excludes) ==
    LET Keep(p) == p \notin excludes IN SelectSeq(includes, Keep)

EmptySets == [includes |-> <<>>, excludes |-> {}]

expand_group_pattern(pattern) ==
    LET r == expand_rec(pattern) IN
    IF ~r.ok
    THEN [ok |-> FALSE, val |-> <<>>]
    ELSE LET d == PartitionLoop(r.pairs, 1, EmptySets) IN
         [ok |-> TRUE, val |-> Retain(d.includes, d.excludes)]

\* ------------------------------------------------------------ input sets
\* the characters patterns are built from: letters, the three structural
\* characters, the two exclusion markers and a blank
Alphabet == {"a", "b", "(", ")", ",", "-", "^", " "}

\* every string over Alphabet of at most MaxLen characters
ShortPatterns == UNION {[1..n -> Alphabet] : n \in 0..MaxLen}

\* patterns of the documentation and of the tests (file names shortened),
\* and a few more with two groups, nested exclusions and repeated markers
Seeds ==
    { <<"a","(","b",",","c",")","d">>,
      <<"a","(","b",",","c">>,
      <<"(","a",","," ","b",")">>,
      <<"(","a",",","b",")">>,
      <<"a","(","b",",","(","c",",","d",")",")">>,
      <<"(","a",",","b",")",")">>,
      <<"a","(",")","b">>,
      <<"("," ",","," ",")">>,
      <<"a","(","-","(",")",","," ","b",")">>,
      <<"s","/","(","k",","," ","-","d",")">>,
      <<"(","a",",","-","a",",","b",")">>,
      <<"(","-","a",",","a",",","b",")">>,
      <<"(","a",",","b",")","c","(","d",",","e",")">>,
      <<"(","-","(","a",",","b",")",",","c",")","d","(","e",",","f",")">>,
      <<"(","-","-","a",","," ","a","-","b",",","^","c",")">> }

InsertAt(p, k, c) == SubSeq(p, 1, k) \o <<c>> \o SubSeq(p, k + 1, Len(p))
DeleteAt(p, k) == SubSeq(p, 1, k - 1) \o SubSeq(p, k + 1, Len(p))
ReplaceAt(p, k, c) == [p EXCEPT ![k] = c]

\* the patterns one character away from p
Edits(p) ==
    {InsertAt(p, k, c) : k \in 0..Len(p), c \in Alphabet}
    \cup {DeleteAt(p, k) : k \in 1..Len(p)}
    \cup {ReplaceAt(p, k, c) : k \in 1..Len(p), c \in Alphabet}

InputPatterns == ShortPatterns \cup Seeds \cup UNION {Edits(p) : p \in Seeds}

\* ---------------------------------------------------------------- state
VARIABLES
    pattern,   \* the argument of expand_group_pattern
    pc,        \* where the call stands
    i,         \* expand_rec: i
    acc,       \* expand_rec: acc
    g,         \* parse_group: i, depth, start, segments (and the break)
    gk,        \* parse_group: position of `for seg in segments`
    out,       \* parse_group: out
    pairs,     \* expand_group_pattern: pairs
    pk,        \* expand_group_pattern: position of `for (s, excl) in pairs`
    d,         \* expand_group_pattern: includes and excludes
    result,    \* the returned Vec<String> (Ok) 
    outcome    \* "running", "Ok" or "Err"

vars == <<pattern, pc, i, acc, g, gk, out, pairs, pk, d, result, outcome>>

StartOf(p) ==
    /\ pattern = p
    /\ pc = "scan"
    /\ i = 0
    /\ acc = InitialAcc
    /\ g = GroupEntry(0)
    /\ gk = 1
    /\ out = <<>>
    /\ pairs = <<>>
    /\ pk = 1
    /\ d = EmptySets
    /\ result = <<>>
    /\ outcome = "running"

Init == \E p \in InputPatterns : StartOf(p)

\* expand_rec, arm `_`: append the char to all current strings
ScanLiteral ==
    /\ pc = "scan"
    /\ i < Len(pattern)
    /\ pattern[i + 1] # "("
    /\ acc' = PushChar(acc, pattern[i + 1])
    /\ i' = i + 1
    /\ UNCHANGED <<pattern, pc, g, gk, out, pairs, pk, d, result, outcome>>

\* expand_rec, arm '(': call parse_group(&chars, i + 1)
ScanOpen ==
    /\ pc = "scan"
    /\ i < Len(pattern)
    /\ pattern[i + 1] = "("
    /\ g' = GroupEntry(i + 1)
    /\ pc' = "group_scan"
    /\ UNCHANGED <<pattern, i, acc, gk, out, pairs, pk, d, result, outcome>>

\* parse_group: one iteration of the scanning loop
GroupScan ==
    /\ pc = "group_scan"
    /\ GroupScanning(pattern, g)
    /\ g' = GroupScanStep(pattern, g)
    /\ UNCHANGED <<pattern, pc, i, acc, gk, out, pairs, pk, d, result, outcome>>

\* parse_group: the loop is left; the unmatched check, then `out` is created
GroupScanExit ==
    /\ pc = "group_scan"
    /\ ~GroupScanning(pattern, g)
    /\ IF GroupUnmatched(pattern, g)
       THEN /\ pc' = "done"
            /\ outcome' = "Err"
            /\ UNCHANGED <<gk, out>>
       ELSE /\ pc' = "group_segs"
            /\ gk' = 1
            /\ out' = <<>>
            /\ UNCHANGED outcome
    /\ UNCHANGED <<pattern, i, acc, g, pairs, pk, d, result>>

\* parse_group: one iteration of `for seg in segments`
GroupSegment ==
    /\ pc = "group_segs"
    /\ gk <= Len(g.segments)
    /\ LET r == SegmentItems(g.segments[gk]) IN
       IF ~r.ok
       THEN /\ pc' = "done"
            /\ outcome' = "Err"
            /\ UNCHANGED <<gk, out>>
       ELSE /\ out' = out \o r.items
            /\ gk' = gk + 1
            /\ UNCHANGED <<pc, outcome>>
    /\ UNCHANGED <<pattern, i, acc, g, pairs, pk, d, result>>

\* parse_group returns Ok((out, i)); expand_rec combines and resumes
GroupReturn ==
    /\ pc = "group_segs"
    /\ gk > Len(g.segments)
    /\ acc' = Cartesian(acc, out)
    /\ i' = g.i
    /\ pc' = "scan"
    /\ UNCHANGED <<pattern, g, gk, out, pairs, pk, d, result, outcome>>

\* expand_rec returns Ok(acc) to expand_group_pattern
ScanExit ==
    /\ pc = "scan"
    /\ ~(i < Len(pattern))
    /\ pairs' = acc
    /\ pk' = 1
    /\ d' = EmptySets
    /\ pc' = "partition"
    /\ UNCHANGED <<pattern, i, acc, g, gk, out, result, outcome>>

\* one iteration of `for (s, excl) in pairs`
Partition ==
    /\ pc = "partition"
    /\ pk <= Len(pairs)
    /\ d' = PartitionStep(d, pairs[pk])
    /\ pk' = pk + 1
    /\ UNCHANGED <<pattern, pc, i, acc, g, gk, out, pairs, result, outcome>>

\* includes.retain(...); Ok(includes)
Finish ==
    /\ pc = "partition"
    /\ pk > Len(pairs)
    /\ result' = Retain(d.includes, d.excludes)
    /\ outcome' = "Ok"
    /\ pc' = "done"
    /\ UNCHANGED <<pattern, i, acc, g, gk, out, pairs, pk, d>>

Next ==
    \/ ScanLiteral
    \/ ScanOpen
    \/ GroupScan
    \/ GroupScanExit
    \/ GroupSegment
    \/ GroupReturn
    \/ ScanExit
    \/ Partition
    \/ Finish

Spec == Init /\ [][Next]_vars

\* the run agrees with the function evaluated in one piece
RunMatchesFunction ==
    pc = "done" =>
        LET r == expand_group_pattern(pattern) IN
        /\ (outcome = "Ok") = r.ok
        /\ r.ok => result = r.val

\* ============================================================ reference
\* What the pattern language means, stated on the text of the pattern by
\* counting parentheses, without running the scanner.  Positions are the
\* 1-based positions of the sequence.

Count(s, c, lo, hi) == Cardinality({k \in lo..hi : s[k] = c})

\* s[lo..hi] closes every group it opens and closes no other
BalancedRange(s, lo, hi) ==
    /\ \A k \in lo..hi : Count(s, "(", lo, k) >= Count(s, ")", lo, k)
    /\ Count(s, "(", lo, hi) = Count(s, ")", lo, hi)

\* the position of the ')' matching the '(' at position q; 0 if there is none
MatchClose(s, q) ==
    LET cands == {m \in (q + 1)..Len(s) :
                    s[m] = ")" /\ BalancedRange(s, q + 1, m - 1)}
    IN  IF cands = {} THEN 0
        ELSE CHOOSE m \in cands : \A n \in cands : m <= n

HasUnmatchedOpen(s) ==
    \E q \in 1..Len(s) : s[q] = "(" /\ MatchClose(s, q) = 0

\* position j lies inside a group opened before it
InGroup(s, j) ==
    \E q \in 1..(j - 1) :
        s[q] = "(" /\ (MatchClose(s, q) = 0 \/ MatchClose(s, q) >= j)

\* the pieces of s[lo..hi] between the commas that lie in no nested group
RefSegments(s, lo, hi) ==
    LET cuts == {k \in lo..hi :
                    /\ s[k] = ","
                    /\ Count(s, "(", lo, k - 1) = Count(s, ")", lo, k - 1)}
        n == Cardinality(cuts)
        Cut(j) == IF j = 0 THEN lo - 1
                  ELSE IF j = n + 1 THEN hi + 1
                  ELSE CHOOSE k \in cuts :
                          Cardinality({c \in cuts : c < k}) = j - 1
    IN  [j \in 1..(n + 1) |-> SubSeq(s, Cut(j - 1) + 1, Cut(j) - 1)]

Structural == {"(", ")", ","}
Markers == {"-", "^"}

\* the pattern is P(s1,...,sn)Q with P, Q and the si free of '(' ')' ','
Simple(s) ==
    /\ Count(s, "(", 1, Len(s)) = 1
    /\ LET q == CHOOSE k \in 1..Len(s) : s[k] = "("
           m == MatchClose(s, q)
       IN  /\ m # 0
           /\ \A k \in (1..(q - 1)) \cup ((m + 1)..Len(s)) :
                 s[k] \notin Structural

SimpleOpen(s) == CHOOSE k \in 1..Len(s) : s[k] = "("
SimpleP(s) == SubSeq(s, 1, SimpleOpen(s) - 1)
SimpleQ(s) == SubSeq(s, MatchClose(s, SimpleOpen(s)) + 1, Len(s))
SimpleSegs(s) ==
    RefSegments(s, SimpleOpen(s) + 1, MatchClose(s, SimpleOpen(s)) - 1)

\* a segment with the blanks around it removed
RefTrim(seg) ==
    LET solid == {k \in 1..Len(seg) : seg[k] \notin WhiteSpace} IN
    IF solid = {} THEN <<>>
    ELSE SubSeq(seg,
                CHOOSE k \in solid : \A n \in solid : k <= n,
                CHOOSE k \in solid : \A n \in solid : k >= n)

RefMarked(seg) == RefTrim(seg) # <<>> /\ RefTrim(seg)[1] \in Markers

\* the sequences of ss joined end to end
RECURSIVE RefFlatten(_)
RefFlatten(ss) ==
    IF ss = <<>> THEN <<>> ELSE Head(ss) \o RefFlatten(Tail(ss))

\* every x of xs followed by every y of ys, the x varying slowest
RefProduct(xs, ys) ==
    RefFlatten([p \in 1..Len(xs) |->
        [q \in 1..Len(ys) |->
            [s |-> xs[p].s \o ys[q].s, excl |-> xs[p].excl \/ ys[q].excl]]])

RefLiteral(text) == << [s |-> text, excl |-> FALSE] >>

\* the pairs of a span, built from its end: the text or the group at
\* position from, followed by the pairs of what comes after it
RECURSIVE RefSpan(_, _)
RefSpan(s, from) ==
    IF from > Len(s) THEN RefLiteral(<<>>)
    ELSE IF s[from] # "("
    THEN RefProduct(RefLiteral(<<s[from]>>), RefSpan(s, from + 1))
    ELSE LET grp == parse_group(s, from) IN
         RefProduct(grp.items, RefSpan(s, grp.next + 1))

Texts(ps) == [k \in 1..Len(ps) |-> ps[k].s]

Returned == pc = "done" /\ outcome = "Ok"

\* =============================================================== claims

\* C1: a pattern in which some '(' has no matching ')' makes
\* expand_group_pattern return the unmatched-parenthesis error, not Ok.
\* (The code returns Ok: parse_group's check `i > chars.len()` cannot be
\* true, since the loop stops at i = chars.len().)
C1_UnmatchedParenIsError ==
    (pc = "done" /\ HasUnmatchedOpen(pattern)) => outcome = "Err"

\* C2: the returned sequence is the texts of the non-excluded pairs, in the
\* order expand_rec produced them, without every text that is the text of an
\* excluded pair; no returned string is an excluded text.
C2_ResultIsIncludesMinusExcludes ==
    Returned =>
        LET Included(pr) == ~pr.excl
            excluded == {pairs[k].s : k \in {n \in 1..Len(pairs) : pairs[n].excl}}
            Kept(pr) == ~pr.excl /\ pr.s \notin excluded
        IN  /\ result = Texts(SelectSeq(pairs, Kept))
            /\ \A k \in 1..Len(result) : result[k] \notin excluded
            /\ Len(result) <= Len(SelectSeq(pairs, Included))

\* an included text is produced before an excluded pair of the same text,
\* and something is still returned
C2_Witness ==
    /\ Returned
    /\ result # <<>>
    /\ \E j, k \in 1..Len(pairs) :
          j < k /\ ~pairs[j].excl /\ pairs[k].excl /\ pairs[j].s = pairs[k].s

\* C3, first part: expand_rec returns the cartesian product of the groups'
\* alternatives with the literal text before, between and after them,
\* earlier groups varying slowest, alternatives in segment order.
C3_Product ==
    pc \in {"partition", "done"} => pairs = RefSpan(pattern, 1)

\* C3, second part, as claimed: with no exclusions P(s1,...,sn)Q expands to
\* [P s1 Q, ..., P sn Q].
C3_SimpleAsClaimed ==
    (Returned /\ Simple(pattern)
        /\ \A k \in 1..Len(SimpleSegs(pattern)) : ~RefMarked(SimpleSegs(pattern)[k]))
    => result = [k \in 1..Len(SimpleSegs(pattern)) |->
                    SimpleP(pattern) \o SimpleSegs(pattern)[k] \o SimpleQ(pattern)]

\* C3, second part, amended: the si are taken with the whitespace around them
\* removed, and those that are empty then are left out.
C3_SimpleTrimmed ==
    (Returned /\ Simple(pattern)
        /\ \A k \in 1..Len(SimpleSegs(pattern)) : ~RefMarked(SimpleSegs(pattern)[k]))
    => LET segs == SimpleSegs(pattern)
           NonEmpty(seg) == RefTrim(seg) # <<>>
           kept == SelectSeq(segs, NonEmpty)
       IN  result = [k \in 1..Len(kept) |->
                        SimpleP(pattern) \o RefTrim(kept[k]) \o SimpleQ(pattern)]

\* C3 as claimed (both parts); violated, e.g. by "( )" and "(a, b)"
C3_AsClaimed == C3_Product /\ C3_SimpleAsClaimed

\* C3 amended: the product, and the simple form over the trimmed, non-empty
\* segments
C3_CartesianProduct == C3_Product /\ C3_SimpleTrimmed

\* two groups of two alternatives each with text around them have been
\* multiplied out
C3_Witness ==
    /\ Returned
    /\ Len(pairs) >= 4
    /\ Count(pattern, "(", 1, Len(pattern)) = 2
    /\ ~HasUnmatchedOpen(pattern)
    /\ pattern[1] = "("
    /\ \E k \in 2..(Len(pattern) - 1) :
          pattern[k] \notin Structural /\ ~InGroup(pattern, k)
    /\ Len(result) = Len(pairs)

\* C4: exclusion is monotonic.  Every pair a segment marked with '-' or '^'
\* adds to the group's alternatives is excluded, groups nested in the segment
\* included; an excluded pair stays excluded when text is appended to it,
\* when a further group is multiplied onto it and when it is handed to the
\* driver, and it never enters includes.
C4_Step ==
    /\ (pc = "scan" /\ pc' = "scan") =>
          /\ Len(acc') = Len(acc)
          /\ \A k \in 1..Len(acc) : acc[k].excl => acc'[k].excl
    /\ (pc = "group_segs" /\ pc' = "group_segs") =>
          /\ SubSeq(out', 1, Len(out)) = out
          /\ RefMarked(g.segments[gk]) =>
                \A k \in (Len(out) + 1)..Len(out') : out'[k].excl
    /\ (pc = "group_segs" /\ pc' = "scan") =>
          /\ Len(acc') = Len(acc) * Len(out)
          /\ \A p \in 1..Len(acc) : \A q \in 1..Len(out) :
                (acc[p].excl \/ out[q].excl) =>
                    acc'[(p - 1) * Len(out) + q].excl
    /\ (pc = "scan" /\ pc' = "partition") =>
          /\ Len(pairs') = Len(acc)
          /\ \A k \in 1..Len(acc) : acc[k].excl => pairs'[k].excl
    /\ (pc = "partition" /\ pc' = "partition") =>
          (pairs[pk].excl => d'.includes = d.includes /\ pairs[pk].s \in d'.excludes)

C4_ExclusionMonotonic == [][C4_Step]_vars

\* a marked segment holding a nested group gave excluded pairs, the group
\* was multiplied onto the accumulator and text was appended after it
C4_Witness ==
    /\ pc = "scan"
    /\ g.brk
    /\ i > g.i
    /\ \E k \in 1..Len(g.segments) :
          /\ RefMarked(g.segments[k])
          /\ Count(g.segments[k], "(", 1, Len(g.segments[k])) > 0
    /\ Cardinality({k \in 1..Len(acc) : acc[k].excl}) >= 2
    /\ \E k \in 1..Len(acc) : ~acc[k].excl

\* C5: in a group '-' or '^' marks exclusion only as the first character of
\* a trimmed segment; that one character is removed and the rest is expanded
\* as it stands.  Anywhere else (later in a segment, a second leading marker,
\* outside any group) it is an ordinary character and excludes nothing.
C5_MarkerOnlyLeadsSegment ==
    /\ (pc \in {"partition", "done"} /\ Count(pattern, "(", 1, Len(pattern)) = 0)
          => pairs = RefLiteral(pattern)
    /\ (Returned /\ Count(pattern, "(", 1, Len(pattern)) = 0)
          => result = <<pattern>>
    /\ (pc \in {"partition", "done"} /\ Simple(pattern)) =>
          LET segs == SimpleSegs(pattern)
              NonEmpty(seg) == RefTrim(seg) # <<>>
              kept == SelectSeq(segs, NonEmpty)
              Body(seg) == IF RefMarked(seg) THEN Tail(RefTrim(seg)) ELSE RefTrim(seg)
          IN  pairs = [k \in 1..Len(kept) |->
                          [s |-> SimpleP(pattern) \o Body(kept[k]) \o SimpleQ(pattern),
                           excl |-> RefMarked(kept[k])]]

\* one segment starts with two markers, another has a marker after its
\* first character, the text before the group has one too
C5_Witness ==
    /\ Returned
    /\ Simple(pattern)
    /\ \E k \in 1..Len(SimpleSegs(pattern)) :
          LET tr == RefTrim(SimpleSegs(pattern)[k]) IN
          Len(tr) >= 3 /\ tr[1] \in Markers /\ tr[2] \in Markers
    /\ \E k \in 1..Len(SimpleSegs(pattern)) :
          LET tr == RefTrim(SimpleSegs(pattern)[k]) IN
          Len(tr) >= 2 /\ tr[1] \notin Markers /\ tr[2] \in Markers
    /\ SimpleP(pattern) # <<>> /\ SimpleP(pattern)[1] \in Markers
    /\ result # <<>>

\* the places between two characters of s (k: after position k) that are the
\* start or the end of a group segment
SegmentEdges(s) ==
    {k \in 0..Len(s) :
        \/ k >= 1 /\ s[k] = "("
        \/ k >= 1 /\ s[k] = "," /\ InGroup(s, k)
        \/ k < Len(s) /\ s[k + 1] \in {",", ")"} /\ InGroup(s, k + 1)}

\* C6: whitespace added at the start or the end of a group segment (right
\* after '(' or ',', right before ',' or ')') does not change what
\* expand_group_pattern returns, also before an exclusion marker.
C6_WhitespaceInsensitive ==
    pc = "done" =>
        \A k \in SegmentEdges(pattern) : \A w \in WhiteSpace :
            expand_group_pattern(InsertAt(pattern, k, w))
                = [ok |-> outcome = "Ok", val |-> result]

\* a segment of a group has a blank before its exclusion marker, and the
\* call returned something
C6_Witness ==
    /\ Returned
    /\ result # <<>>
    /\ \E k \in 2..(Len(pattern) - 1) :
          /\ pattern[k] = " "
          /\ pattern[k - 1] = ","
          /\ pattern[k + 1] \in Markers
          /\ (k - 1) \in SegmentEdges(pattern)
    /\ \E k \in 1..Len(pairs) : pairs[k].excl

\* C7: the call terminates.  Every iteration of the scanning loops of
\* expand_rec and parse_group moves its index forward, parse_group hands back
\* a resume index greater than the index of the '(' that opened the group,
\* and every segment expand_rec is called on again is shorter than the span
\* it was cut from.  Termination is stated without fairness: every step
\* makes what is left to do smaller in a well-founded order, and a step is
\* possible until the call has returned.
C7_Step ==
    /\ (pc = "scan" /\ pc' = "scan") => (i' > i /\ i' <= Len(pattern))
    /\ (pc = "scan" /\ pc' = "group_scan") => g'.i = i + 1
    /\ (pc = "group_scan" /\ pc' = "group_scan") =>
          (g'.i > g.i /\ g'.i <= Len(pattern))
    /\ (pc = "group_segs" /\ pc' = "scan") => (i' > i /\ i' <= Len(pattern))

C7_SegmentsShorter ==
    pc = "group_segs" =>
        \A k \in 1..Len(g.segments) : Len(g.segments[k]) < Len(pattern)

\* what is left to do, ordered lexicographically: the phase, the characters
\* (or pairs) not yet passed, the stage at the current index, the segments
\* not yet expanded
C7_Left ==
    CASE pc = "scan" -> <<2, Len(pattern) - i, 1, 0>>
      [] pc = "group_scan" -> <<2, Len(pattern) - g.i, 3, 0>>
      [] pc = "group_segs" ->
            <<2, Len(pattern) - g.i, 2, Len(g.segments) + 1 - gk>>
      [] pc = "partition" -> <<1, Len(pairs) + 1 - pk, 0, 0>>
      [] OTHER -> <<0, 0, 0, 0>>

C7_Less(x, y) ==
    \E n \in 1..4 : x[n] < y[n] /\ \A m \in 1..(n - 1) : x[m] = y[m]

\* some action's guard holds
C7_CanStep ==
    \/ pc = "scan" /\ i < Len(pattern) /\ pattern[i + 1] # "("
    \/ pc = "scan" /\ i < Len(pattern) /\ pattern[i + 1] = "("
    \/ pc = "scan" /\ ~(i < Len(pattern))
    \/ pc = "group_scan" /\ GroupScanning(pattern, g)
    \/ pc = "group_scan" /\ ~GroupScanning(pattern, g)
    \/ pc = "group_segs" /\ gk <= Len(g.segments)
    \/ pc = "group_segs" /\ gk > Len(g.segments)
    \/ pc = "partition" /\ pk <= Len(pairs)
    \/ pc = "partition" /\ pk > Len(pairs)

C7_Terminates ==
    /\ [][C7_Step /\ C7_Less(C7_Left', C7_Left)]_vars
    /\ [](C7_SegmentsShorter)
    /\ [](\A n \in 1..4 : C7_Left[n] >= 0)
    /\ [](pc = "done" \/ C7_CanStep)

\* a call on a pattern with a nested group has ended
C7_Witness ==
    /\ Returned
    /\ BalancedRange(pattern, 1, Len(pattern))
    /\ \E q \in 1..Len(pattern) : pattern[q] = "(" /\ InGroup(pattern, q)
    /\ result # <<>>

\* C8: parse_group cuts segments only at the commas of its own depth, ends
\* the group at the ')' matching the opening '(' and resumes right after
\* it; nested groups are expanded in turn, so "a(b,(c,d))" gives ab, ac, ad.
C8_GroupEndsAtMatch ==
    /\ (pc = "group_segs" /\ MatchClose(pattern, i + 1) # 0) =>
          LET m == MatchClose(pattern, i + 1) IN
          /\ g.i = m
          /\ g.segments = RefSegments(pattern, i + 2, m - 1)
    /\ (Returned /\ pattern = <<"a","(","b",",","(","c",",","d",")",")">>) =>
          result = << <<"a","b">>, <<"a","c">>, <<"a","d">> >>

\* a group with a comma inside a nested group has been cut into segments
C8_Witness ==
    /\ pc = "group_segs"
    /\ MatchClose(pattern, i + 1) # 0
    /\ Len(g.segments) >= 2
    /\ \E k \in 1..Len(g.segments) :
          /\ Count(g.segments[k], ",", 1, Len(g.segments[k])) > 0
          /\ Count(g.segments[k], "(", 1, Len(g.segments[k])) > 0

\* position j holds a ')' or ',' that lies in no group
Stray(s, j) ==
    /\ s[j] \in {")", ","}
    /\ \A q \in 1..(j - 1) : s[q] = "(" => MatchClose(s, q) \in 1..(j - 1)

\* C9: a ')' or ',' outside any group is an ordinary character: the call
\* does not fail, nothing ends there, and the pairs are those of the text
\* before it, the character, and those of the text after it, joined; so
\* "(a,b))" gives "a)" and "b)".
C9_StrayCloseIsLiteral ==
    /\ (pc \in {"partition", "done"}) =>
          \A j \in 1..Len(pattern) : Stray(pattern, j) =>
              pairs = RefProduct(
                        RefProduct(expand_rec(SubSeq(pattern, 1, j - 1)).pairs,
                                   RefLiteral(<<pattern[j]>>)),
                        expand_rec(SubSeq(pattern, j + 1, Len(pattern))).pairs)
    /\ (pc = "done" /\ \E j \in 1..Len(pattern) : Stray(pattern, j)) =>
          outcome = "Ok"
    /\ (Returned /\ pattern = <<"(","a",",","b",")",")">>) =>
          result = << <<"a",")">>, <<"b",")">> >>

\* a call on a pattern with a ')' after a closed group has returned strings
C9_Witness ==
    /\ Returned
    /\ \E j \in 2..Len(pattern) :
          Stray(pattern, j) /\ pattern[j] = ")" /\ pattern[j - 1] = ")"
    /\ Len(result) >= 2
    /\ \A k \in 1..Len(result) : Count(result[k], ")", 1, Len(result[k])) = 1

\* the group opened at q is closed and holds only blanks and commas
EmptyGroup(s, q) ==
    /\ s[q] = "("
    /\ MatchClose(s, q) # 0
    /\ \A k \in (q + 1)..(MatchClose(s, q) - 1) : s[k] \in WhiteSpace \cup {","}

\* the group opened at q lies in no other group
TopGroup(s, q) ==
    \A r \in 1..(q - 1) : s[r] = "(" => MatchClose(s, r) \in 1..(q - 1)

HasEmptyTopGroup(s) ==
    \E q \in 1..Len(s) : EmptyGroup(s, q) /\ TopGroup(s, q)

\* C10: a group whose segments are all empty or blank gives no alternative;
\* the span that holds it expands to no pair, whatever text or groups stand
\* around it, and expand_group_pattern returns Ok with an empty sequence.
C10_EmptyGroupEmptiesSpan ==
    /\ (pc \in {"partition", "done"} /\ HasEmptyTopGroup(pattern)) => pairs = <<>>
    /\ (pc = "done" /\ HasEmptyTopGroup(pattern)) =>
          (outcome = "Ok" /\ result = <<>>)
    /\ pc = "group_segs" =>
          \A k \in 1..Len(g.segments) :
              HasEmptyTopGroup(g.segments[k]) =>
                  SegmentItems(g.segments[k]) = [ok |-> TRUE, items |-> <<>>]

\* a call on a pattern with text before and after an empty group, and a
\* non-empty group besides, has returned
C10_Witness ==
    /\ Returned
    /\ result = <<>>
    /\ \E q \in 2..Len(pattern) :
          /\ EmptyGroup(pattern, q) /\ TopGroup(pattern, q)
          /\ pattern[q - 1] \notin Structural \cup WhiteSpace
          /\ MatchClose(pattern, q) < Len(pattern)
          /\ pattern[Len(pattern)] \notin Structural \cup WhiteSpace

====
